---- MODULE Spec2Model ----
(***************************************************************************)
(* Model of sitemapper.py (SitemapGenerator): URL canonicalisation, domain *)
(* scoping, link filtering, the crawl loop of crawl_website and the CSV /  *)
(* XML emitters.                                                           *)
(*                                                                         *)
(* A Python str is a sequence of one-character strings, so that parsing,   *)
(* formatting, suffix tests and substring tests are computed character by  *)
(* character as the code computes them.                                    *)
(***************************************************************************)
EXTENDS Integers, Sequences, FiniteSets, TLC

(***************************************************************************)
(* Bounds of the model.                                                    *)
(***************************************************************************)
\* largest page budget (max_pages) the run is started with
MaxBudget == 3
\* largest number of distinct crawlable links on one served page (a page may
\* carry any number of anchors that add no link)
MaxLinks == 2
\* largest number of further crawl_website calls on the same generator
MaxReruns == 1
\* largest page budget of such a further call
MaxRerunBudget == 1

(***************************************************************************)
(* str helpers.                                                            *)
(***************************************************************************)
UpperCase == <<"A","B","C","D","E","F","G","H","I","J","K","L","M",
               "N","O","P","Q","R","S","T","U","V","W","X","Y","Z">>
LowerCase == <<"a","b","c","d","e","f","g","h","i","j","k","l","m",
               "n","o","p","q","r","s","t","u","v","w","x","y","z">>
Digits == {"0","1","2","3","4","5","6","7","8","9"}

Range(s) == {s[i] : i \in DOMAIN s}

UpperLetters == Range(UpperCase)
Letters == Range(UpperCase) \cup Range(LowerCase)

SetMin(S) == CHOOSE m \in S : \A n \in S : m <= n
SetMax(S) == CHOOSE m \in S : \A n \in S : m >= n

\* the member of a one-element set; {f(x) : x \in {e}} computes e once and
\* gives f its value
only(S) == CHOOSE x \in S : TRUE

\* c.lower() for one character
lower_char(c) ==
    IF c \in UpperLetters
    THEN LowerCase[CHOOSE i \in DOMAIN UpperCase : UpperCase[i] = c]
    ELSE c

\* s.lower()
lower(s) == [i \in DOMAIN s |-> lower_char(s[i])]

\* s[i:] with a 1-based first index; empty when i is past the end
From(s, i) == SubSeq(s, i, Len(s))

\* s[:i-1], the part strictly before 1-based index i
Before(s, i) == SubSeq(s, 1, i - 1)

\* s.startswith(p)
startswith(s, p) == Len(p) <= Len(s) /\ SubSeq(s, 1, Len(p)) = p

\* s.endswith(p)
endswith(s, p) == Len(p) <= Len(s) /\ SubSeq(s, Len(s) - Len(p) + 1, Len(s)) = p

\* p in s (substring test)
contains(s, p) ==
    \E i \in 1..(Len(s) - Len(p) + 1) :
        s[i] = p[1] /\ SubSeq(s, i, i + Len(p) - 1) = p

\* s.find(c, start) for a one-character c: the first 1-based index >= start
\* holding c, or 0 when there is none (Python's -1)
find(s, c, start) ==
    LET I == {i \in start..Len(s) : s[i] = c}
    IN  IF I = {} THEN 0 ELSE SetMin(I)

\* s.rfind(c): the last 1-based index holding c, or 0
rfind(s, c) ==
    LET I == {i \in 1..Len(s) : s[i] = c}
    IN  IF I = {} THEN 0 ELSE SetMax(I)

\* s.rstrip(c): every trailing c is removed
rstrip(s, c) ==
    LET Keep == {i \in 1..Len(s) : s[i] # c}
    IN  IF Keep = {} THEN <<>> ELSE SubSeq(s, 1, SetMax(Keep))

\* s.strip() for the blank character
strip(s) ==
    LET Keep == {i \in 1..Len(s) : s[i] # " "}
    IN  IF Keep = {} THEN <<>> ELSE SubSeq(s, SetMin(Keep), SetMax(Keep))

\* ord(c) for the characters of the model
DigitChars == <<"0","1","2","3","4","5","6","7","8","9">>
Punctuation == <<" ", "#", "+", "-", ".", "/", ":", ";", "=", "?", "[", "]">>
PunctuationCodes == <<32, 35, 43, 45, 46, 47, 58, 59, 61, 63, 91, 93>>

IndexOf(seq, c) == CHOOSE i \in DOMAIN seq : seq[i] = c

ord(c) ==
    IF c \in Range(DigitChars) THEN 47 + IndexOf(DigitChars, c)
    ELSE IF c \in Range(UpperCase) THEN 64 + IndexOf(UpperCase, c)
    ELSE IF c \in Range(LowerCase) THEN 96 + IndexOf(LowerCase, c)
    ELSE PunctuationCodes[IndexOf(Punctuation, c)]

\* a < b for two str: the first differing character decides, a proper prefix
\* comes first
str_less(a, b) ==
    \E k \in 1..(Len(a) + 1) :
        /\ k <= Len(b)
        /\ SubSeq(a, 1, k - 1) = SubSeq(b, 1, k - 1)
        /\ (k = Len(a) + 1 \/ ord(a[k]) < ord(b[k]))

\* sorted(S) for a set of str: the i-th element has i - 1 elements before it
sorted(S) ==
    [i \in 1..Cardinality(S) |->
        CHOOSE x \in S : Cardinality({y \in S : str_less(y, x)}) = i - 1]

\* every order in which a set can be iterated
orders(S) ==
    {order \in [1..Cardinality(S) -> S] : \A x \in S : \E i \in DOMAIN order : order[i] = x}

(***************************************************************************)
(* urllib.parse as the program uses it.                                    *)
(***************************************************************************)
scheme_chars == Letters \cup Digits \cup {"+", "-", "."}

\* schemes for which urlparse splits ;params off the path
uses_params == { <<>>, <<"f","t","p">>, <<"h","t","t","p">>, <<"h","t","t","p","s">> }

\* urlsplit: the scheme is the text before the first ':' when that text is
\* non-empty, starts with a letter and is made of scheme characters only
SplitScheme(url) ==
    LET i == find(url, ":", 1)
    IN  IF /\ i > 1
           /\ url[1] \in Letters
           /\ \A k \in 1..(i - 1) : url[k] \in scheme_chars
        THEN [scheme |-> lower(Before(url, i)), rest |-> From(url, i + 1)]
        ELSE [scheme |-> <<>>, rest |-> url]

\* urlsplit: after '//' the netloc of s.rest reruns up to the first of '/', '?',
\* '#'; s holds the scheme already split off
SplitNetloc(s) ==
    IF startswith(s.rest, <<"/", "/">>)
    THEN LET D == {i \in 3..Len(s.rest) : s.rest[i] \in {"/", "?", "#"}}
             delim == IF D = {} THEN Len(s.rest) + 1 ELSE SetMin(D)
         IN  [scheme |-> s.scheme, netloc |-> SubSeq(s.rest, 3, delim - 1),
              rest |-> From(s.rest, delim)]
    ELSE [scheme |-> s.scheme, netloc |-> <<>>, rest |-> s.rest]

\* s.split(c, 1): the text before the first c and the text after it
SplitFirst(s, c) ==
    LET i == find(s, c, 1)
    IN  IF i = 0 THEN [head |-> s, tail |-> <<>>]
        ELSE [head |-> Before(s, i), tail |-> From(s, i + 1)]

\* urlsplit: the fragment is the text after the first '#'
SplitFragment(n) ==
    LET f == SplitFirst(n.rest, "#")
    IN  [scheme |-> n.scheme, netloc |-> n.netloc, rest |-> f.head, fragment |-> f.tail]

\* urlsplit: the query is the text after the first '?', the path the text
\* before it
SplitQuery(f) ==
    LET q == SplitFirst(f.rest, "?")
    IN  [scheme |-> f.scheme, netloc |-> f.netloc, path |-> q.head,
         query |-> q.tail, fragment |-> f.fragment]

\* _splitparams: ;params belong to the last path segment only
SplitParams(scheme, path) ==
    IF scheme \in uses_params /\ find(path, ";", 1) # 0
    THEN LET slash == rfind(path, "/")
             i == IF slash # 0 THEN find(path, ";", slash) ELSE find(path, ";", 1)
         IN  IF i = 0 THEN [path |-> path, params |-> <<>>]
             ELSE [path |-> Before(path, i), params |-> From(path, i + 1)]
    ELSE [path |-> path, params |-> <<>>]

\* urlparse on the result of urlsplit; invalid is TRUE where urlsplit raises
\* ValueError ("Invalid IPv6 URL": a netloc with an unmatched square bracket)
ParseResult(q) ==
    LET p == SplitParams(q.scheme, q.path)
    IN  [scheme |-> q.scheme, netloc |-> q.netloc, path |-> p.path,
         params |-> p.params, query |-> q.query, fragment |-> q.fragment,
         invalid |-> ("[" \in Range(q.netloc)) # ("]" \in Range(q.netloc))]

\* urlparse(url): urlsplit step by step, then _splitparams
urlparse(url) ==
    only({ ParseResult(q) :
           q \in { SplitQuery(f) :
           f \in { SplitFragment(n) :
           n \in { SplitNetloc(s) :
           s \in { SplitScheme(u) : u \in {url} } } } } })

\* urlunparse: the six parts put back together
urlunparse(scheme, netloc, path, params, query, fragment) ==
    LET p1 == IF params # <<>> THEN path \o <<";">> \o params ELSE path
        p2 == IF netloc # <<>> \/ (scheme \in uses_params /\ scheme # <<>>
                                     /\ ~startswith(p1, <<"/", "/">>))
              THEN <<"/", "/">> \o netloc
                   \o (IF p1 # <<>> /\ p1[1] # "/" THEN <<"/">> \o p1 ELSE p1)
              ELSE p1
        p3 == IF scheme # <<>> THEN scheme \o <<":">> \o p2 ELSE p2
        p4 == IF query # <<>> THEN p3 \o <<"?">> \o query ELSE p3
    IN  IF fragment # <<>> THEN p4 \o <<"#">> \o fragment ELSE p4

\* urljoin on the parsed base b and the parsed url u, without '.' or '..'
\* segments: an url with another scheme or with a netloc stands for itself,
\* a rooted path replaces the base path, any other path replaces the last
\* segment of the base path
join(b, u, url) ==
    LET scheme == IF u.scheme = <<>> THEN b.scheme ELSE u.scheme
        dir == Before(b.path, rfind(b.path, "/") + 1)
        joined == IF startswith(u.path, <<"/">>) THEN u.path
                  ELSE (IF dir = <<>> THEN <<"/">> ELSE dir) \o u.path
        t == IF u.netloc # <<>>
             THEN [netloc |-> u.netloc, path |-> u.path, params |-> u.params,
                   query |-> u.query]
             ELSE IF u.path = <<>> /\ u.params = <<>>
             THEN [netloc |-> b.netloc, path |-> b.path, params |-> b.params,
                   query |-> IF u.query = <<>> THEN b.query ELSE u.query]
             ELSE [netloc |-> b.netloc, path |-> joined, params |-> u.params,
                   query |-> u.query]
    IN  IF scheme # b.scheme THEN url
        ELSE urlunparse(scheme, t.netloc, t.path, t.params, t.query, u.fragment)

\* urljoin(base, url) for a non-empty base and url
urljoin(base, url) ==
    only({ join(b, u, ref) : b \in {urlparse(base)}, u \in {urlparse(url)}, ref \in {url} })

(***************************************************************************)
(* String tables of the program.                                           *)
(***************************************************************************)
HttpPrefix == <<"h","t","t","p",":","/","/">>
HttpsPrefix == <<"h","t","t","p","s",":","/","/">>
Www == <<"w","w","w",".">>

non_content_patterns ==
    << <<"c","d","n","-","c","g","i","/","l","/","e","m","a","i","l","-","p","r","o","t","e","c","t","i","o","n">>,
       <<"/","c","d","n","-","c","g","i","/">>,
       <<"w","p","-","j","s","o","n","/">>,
       <<"x","m","l","r","p","c",".","p","h","p">>,
       <<"f","e","e","d","/">>,
       <<".","x","m","l">>,
       <<".","r","s","s">> >>

ignored_extensions ==
    << <<".","p","d","f">>, <<".","j","p","g">>, <<".","j","p","e","g">>,
       <<".","p","n","g">>, <<".","g","i","f">>, <<".","z","i","p">>,
       <<".","w","e","b","p">>, <<".","m","p","4">>, <<".","m","p","e","g">>,
       <<".","s","v","g">>, <<".","c","s","s">>, <<".","j","s">>,
       <<".","i","c","o">>, <<".","w","o","f","f">>, <<".","w","o","f","f","2">>,
       <<".","t","t","f">>, <<".","e","o","t">> >>

woocommerce_terms ==
    << <<"c","a","r","t">>,
       <<"w","i","s","h","l","i","s","t">>,
       <<"c","h","e","c","k","o","u","t">>,
       <<"a","d","d","-","t","o","-","c","a","r","t">>,
       <<"m","y","-","a","c","c","o","u","n","t">> >>

skipped_href_prefixes ==
    << <<"j","a","v","a","s","c","r","i","p","t",":">>,
       <<"m","a","i","l","t","o",":">>,
       <<"t","e","l",":">>,
       <<"#">> >>

allowed_schemes == { <<"h","t","t","p">>, <<"h","t","t","p","s">> }

\* re.search(r'\.(pdf|...|eot)(\?|$|/)', s): a dot, a listed extension, and
\* then '?', '/' or the end of the string
extension_regex_matches(s) ==
    \E i \in {d \in DOMAIN s : s[d] = "."} :
        \E k \in DOMAIN ignored_extensions :
            LET j == i + Len(ignored_extensions[k])
            IN  /\ j <= Len(s) + 1
                /\ SubSeq(s, i, j - 1) = ignored_extensions[k]
                /\ (j = Len(s) + 1 \/ s[j] \in {"?", "/"})

(***************************************************************************)
(* The site and the inputs of the run.                                     *)
(***************************************************************************)
\* what the user types as website URL (main adds https:// to it)
SeedInput == <<"a",".","c","o","/">>

\* href attribute values a served page may carry
Hrefs ==
    { <<"h","t","t","p","s",":","/","/","a",".","c","o","/","p">>,      \* same site
      <<"/","p","/">>,                                          \* relative, trailing slash
      <<"h","t","t","p","s",":","/","/","a",".","c","o","/">>,          \* the seed itself
      <<"h","t","t","p","s",":","/","/","w","w","w",".","a",".","c","o","/","p","/","#","s">>,
      <<"h","t","t","p","s",":","/","/","b",".","c","o">>,      \* another site
      <<"f",".","p","d","f">>,                                  \* a file
      <<"h","t","t","p","s",":","/","/","a",".","c","o","/","c","a","r","t">>,
      <<"f","t","p",":","/","/","a",".","c","o","/","r">>,      \* another scheme
      <<"#","t">>,                                              \* a pure fragment
      <<"h","t","t","p",":","/","/","[">> }                     \* urljoin raises on it

\* <title> and <h1> of a served page; "" stands for a missing element
Documents == { [title |-> "", h1 |-> ""], [title |-> "Title", h1 |-> "Heading"] }

\* page budgets main may pass to crawl_website
Budgets == 0..MaxBudget

VARIABLES
    base_url,                 \* self.base_url
    domain,                   \* self.domain
    base_domain,              \* self.base_domain
    delay,                    \* self.delay
    ignore_woocommerce_urls,  \* self.ignore_woocommerce_urls
    visited_urls,             \* self.visited_urls
    all_links,                \* self.all_links
    page_data,                \* self.page_data: url -> record
    max_pages,                \* the budget crawl_website is called with
    urls_to_visit,            \* crawl_website's frontier
    current_url,              \* crawl_website's current_url
    new_links,                \* the links of current_url still to be looked at
    links,                    \* extract_links_and_titles' list of links found so far
    pc,                       \* where the run is
    csv_rows,                 \* the rows generate_csv wrote
    xml_urls,                 \* the <url> elements generate_sitemap wrote
    found_on,                 \* history: queued link -> the page it was queued from
    returned,                 \* history: every link extract_links_and_titles returned
    extracted,                \* history: every link the link loop appended to links
    fetches,                  \* history: the number of requests sent
    reruns,                   \* the number of times crawl_website was called again
    anchors,                  \* the anchors of the parsed page the link loop has not met yet
    arg,                      \* the argument of a method called on its own
    result                    \* what the calls of that method returned, in order

vars == <<base_url, domain, base_domain, delay, ignore_woocommerce_urls,
          visited_urls, all_links, page_data, max_pages, urls_to_visit,
          current_url, new_links, links, pc, csv_rows, xml_urls, found_on, returned,
          extracted, fetches, reruns, anchors, arg, result>>

\* the variables of a method called on its own
call == <<arg, result>>

\* what the crawl never assigns
config == <<base_url, domain, base_domain, delay, ignore_woocommerce_urls, max_pages,
            csv_rows, xml_urls, reruns, anchors, call>>

(***************************************************************************)
(* SitemapGenerator: the pure methods.  self is the record of the fields a *)
(* method reads.                                                           *)
(***************************************************************************)
\* get_base_domain returning the domain as it is
get_base_domain_keeps_www(d) == d

\* get_base_domain(domain)
get_base_domain(d) == IF startswith(d, Www) THEN From(d, 5) ELSE d

\* normalize_url keeping the trailing slashes of the path
normalized_keeps_slash(parsed) ==
    LET normalized_url == parsed.scheme \o <<":", "/", "/">> \o parsed.netloc \o parsed.path
    IN  IF parsed.query # <<>> THEN normalized_url \o <<"?">> \o parsed.query
        ELSE normalized_url

\* lines 57-61 of normalize_url: the URL rebuilt from its parsed parts
normalized(parsed) ==
    LET path == rstrip(parsed.path, "/")
        normalized_url == parsed.scheme \o <<":", "/", "/">> \o parsed.netloc \o path
    IN  IF parsed.query # <<>> THEN normalized_url \o <<"?">> \o parsed.query
        ELSE normalized_url

\* normalize_url(url)
normalize_url(url) == only({ normalized(parsed) : parsed \in {urlparse(url)} })

\* is_same_domain(url)
is_same_domain(self, url) ==
    \E netloc \in {urlparse(url).netloc} : get_base_domain(netloc) = self.base_domain

\* any(term in s for term in woocommerce_terms)
any_woocommerce_term(s) ==
    \E k \in DOMAIN woocommerce_terms : contains(s, woocommerce_terms[k])

\* woocommerce_ignore_cart_urls(url)
woocommerce_ignore_cart_urls(url) ==
    \/ \E path_lower \in {lower(urlparse(url).path)} : any_woocommerce_term(path_lower)
    \/ /\ "?" \in Range(url)
       /\ \E url_lower \in {lower(url)} : any_woocommerce_term(url_lower)

\* lines 84-106 of is_valid_url without the scheme test of line 108
is_content_url_always_woocommerce(self, url, parsed, url_lower, path_lower) ==
    IF woocommerce_ignore_cart_urls(url)
    THEN FALSE
    ELSE IF \E k \in DOMAIN non_content_patterns :
                contains(url_lower, non_content_patterns[k]) THEN FALSE
    ELSE IF \E k \in DOMAIN ignored_extensions :
                endswith(path_lower, ignored_extensions[k]) THEN FALSE
    ELSE IF extension_regex_matches(url_lower) THEN FALSE
    ELSE parsed.scheme \in allowed_schemes

is_content_url_any_scheme(self, url, parsed, url_lower, path_lower) ==
    IF self.ignore_woocommerce_urls /\ woocommerce_ignore_cart_urls(url)
    THEN FALSE
    ELSE IF \E k \in DOMAIN non_content_patterns :
                contains(url_lower, non_content_patterns[k]) THEN FALSE
    ELSE IF \E k \in DOMAIN ignored_extensions :
                endswith(path_lower, ignored_extensions[k]) THEN FALSE
    ELSE ~extension_regex_matches(url_lower)

\* lines 84-108 of is_valid_url, on the parsed URL and the lowered texts
is_content_url(self, url, parsed, url_lower, path_lower) ==
    IF self.ignore_woocommerce_urls /\ woocommerce_ignore_cart_urls(url)
    THEN FALSE
    ELSE IF \E k \in DOMAIN non_content_patterns :
                contains(url_lower, non_content_patterns[k]) THEN FALSE
    ELSE IF \E k \in DOMAIN ignored_extensions :
                endswith(path_lower, ignored_extensions[k]) THEN FALSE
    ELSE IF extension_regex_matches(url_lower) THEN FALSE
    ELSE parsed.scheme \in allowed_schemes

\* is_valid_url(url)
is_valid_url(self, url) ==
    \E u \in {url} : \E parsed \in {urlparse(u)} :
        \E url_lower \in {lower(u)}, path_lower \in {lower(parsed.path)} :
            IF ~is_same_domain(self, u) THEN FALSE
            ELSE is_content_url(self, u, parsed, url_lower, path_lower)

\* ignore_anchored_links(url): url.split('#')[0]
ignore_anchored_links(url) == SplitFirst(url, "#").head

\* extract_seo_title_and_h1: the sentinel stands in for a missing element
extract_seo_title_and_h1(doc) ==
    [seo_title |-> IF doc.title # "" THEN doc.title ELSE "No SEO title found",
     h1_content |-> IF doc.h1 # "" THEN doc.h1 ELSE "No H1 found"]

\* line 156: the hrefs the link loop skips
skipped_href(href) ==
    href = <<>> \/ \E k \in DOMAIN skipped_href_prefixes :
                       startswith(href, skipped_href_prefixes[k])

\* lines 153-169: what one iteration of the link loop of
\* extract_links_and_titles makes of the anchor raw_href of page url: the
\* anchor is skipped, or urljoin / normalize_url raise ValueError on it, or
\* it resolves to full_url, which is_valid_url accepts or not
link_skipped == [skipped |-> TRUE, raises |-> FALSE, full_url |-> <<>>, valid |-> FALSE]
link_raises == [skipped |-> FALSE, raises |-> TRUE, full_url |-> <<>>, valid |-> FALSE]

\* lines 166-169: the normalized URL and what is_valid_url says of it
resolve_full_url(self, full_url) ==
    [skipped |-> FALSE, raises |-> FALSE, full_url |-> full_url,
     valid |-> is_valid_url(self, full_url)]

\* lines 160-164: the joined URL without its fragment, normalized
resolve_joined(self, joined) ==
    IF urlparse(joined).invalid THEN link_raises
    ELSE only({ resolve_full_url(self, full_url) :
                full_url \in {normalize_url(ignore_anchored_links(joined))} })

\* lines 156-159: the stripped href is skipped or joined to the page URL
resolve_href(self, url, href) ==
    IF skipped_href(href) THEN link_skipped
    ELSE IF urlparse(href).invalid THEN link_raises
    ELSE only({ resolve_joined(self, joined) : joined \in {urljoin(url, href)} })

resolve_link(self, url, raw_href) ==
    only({ resolve_href(self, url, href) : href \in {strip(raw_href)} })

(***************************************************************************)
(* main and __init__: the state after construction.                        *)
(***************************************************************************)
\* lines 29-30 and 347-348: https:// is put before an URL without a scheme
with_scheme(url) ==
    IF startswith(url, HttpPrefix) \/ startswith(url, HttpsPrefix) THEN url
    ELSE HttpsPrefix \o url

\* lines 31-46: the fields set from the URL with its scheme
fields(url, parsed_base, ignore) ==
    [base_url |-> normalize_url(url),
     delay |-> 1,
     domain |-> parsed_base.netloc,
     base_domain |-> get_base_domain(parsed_base.netloc),
     ignore_woocommerce_urls |-> ignore]

\* __init__(base_url, delay=1, ignore_woocommerce_urls)
init(url, ignore) == fields(with_scheme(url), urlparse(with_scheme(url)), ignore)

\* the generators main can construct from the inputs
Generators == {init(with_scheme(strip(SeedInput)), ignore) : ignore \in BOOLEAN}

\* the constructed generator, as the methods read it
this ==
    [base_url |-> base_url, delay |-> delay, domain |-> domain,
     base_domain |-> base_domain, ignore_woocommerce_urls |-> ignore_woocommerce_urls]

\* d with key k bound to v
Put(d, k, v) == [x \in DOMAIN d \cup {k} |-> IF x = k THEN v ELSE d[x]]

Init ==
    /\ \E g \in Generators :
        /\ base_url = g.base_url
        /\ delay = g.delay
        /\ domain = g.domain
        /\ base_domain = g.base_domain
        /\ ignore_woocommerce_urls = g.ignore_woocommerce_urls
    /\ max_pages \in Budgets
    /\ visited_urls = {}
    /\ all_links = {}
    /\ page_data = [u \in {} |-> 0]
    /\ urls_to_visit = {}
    /\ current_url = <<>>
    /\ new_links = <<>>
    /\ links = <<>>
    /\ pc = "constructed"
    /\ csv_rows = <<>>
    /\ xml_urls = <<>>
    /\ found_on = [u \in {} |-> 0]
    /\ returned = {}
    /\ extracted = {}
    /\ fetches = 0
    /\ reruns = 0
    /\ anchors = <<>>
    /\ arg = <<>>
    /\ result = <<>>

(***************************************************************************)
(* The anchors of the site, resolved once.  resolved gives the value of    *)
(* resolve_link; for the pages the site can lead to it is looked up in a   *)
(* table instead of being computed again in every state.                   *)
(***************************************************************************)
\* the pages reachable from pages by accepted anchors
RECURSIVE link_closure(_, _)
link_closure(self, pages) ==
    CHOOSE closure \in
        { IF next = pages THEN pages ELSE link_closure(self, next) :
          next \in { pages \cup {v \in {resolve_link(self, u, h).full_url :
                                           u \in pages, h \in Hrefs} :
                                  v # <<>> /\ is_valid_url(self, v)} } } : TRUE

\* resolve_link for every anchor on every page of the site
ResolvedLinks ==
    UNION { { [self |-> g, url |-> u, href |-> h, link |-> resolve_link(g, u, h)] :
              u \in link_closure(g, {g.base_url}), h \in Hrefs } :
            g \in Generators }

\* the entries of table for one anchor
lookup(table, self, url, raw_href) ==
    {r \in table : r.self = self /\ r.url = url /\ r.href = raw_href}

\* the link of the only entry, or the computed value where there is none
only_link(entries, self, url, raw_href) ==
    IF entries # {} THEN (CHOOSE r \in entries : TRUE).link
    ELSE resolve_link(self, url, raw_href)

resolved(self, url, raw_href) ==
    only_link(lookup(ResolvedLinks, self, url, raw_href), self, url, raw_href)

(***************************************************************************)
(* crawl_website.                                                          *)
(***************************************************************************)
\* lines 194-196: the frontier holds the seed, the sets are cleared
crawl_begin ==
    /\ pc = "constructed"
    /\ urls_to_visit' = {base_url}
    /\ visited_urls' = {}
    /\ all_links' = {}
    /\ pc' = "loop"
    /\ UNCHANGED <<config, page_data, current_url, new_links, links,
                   found_on, returned,
                   extracted, fetches>>

\* the loop condition with the budget test off by one
loop_condition_off_by_one ==
    urls_to_visit # {} /\ Cardinality(visited_urls) <= max_pages

\* line 198: the loop condition
loop_condition == urls_to_visit # {} /\ Cardinality(visited_urls) < max_pages

\* the loop taking a member of the frontier without removing it
loop_pop_without_removal ==
    /\ pc = "loop"
    /\ loop_condition
    /\ \E u \in urls_to_visit :
        /\ current_url' = u
        /\ pc' = IF u \in visited_urls THEN "loop" ELSE "mark"
    /\ UNCHANGED <<config, visited_urls, all_links, page_data, urls_to_visit, new_links,
                   links, found_on, returned, extracted, fetches>>

\* lines 198-202: set.pop() takes any member; a member already visited is dropped
loop_pop ==
    /\ pc = "loop"
    /\ loop_condition
    /\ \E u \in urls_to_visit :
        /\ urls_to_visit' = urls_to_visit \ {u}
        /\ current_url' = u
        /\ pc' = IF u \in visited_urls THEN "loop" ELSE "mark"
    /\ UNCHANGED <<config, visited_urls, all_links, page_data, new_links, links, found_on, returned,
                   extracted, fetches>>

\* line 198: the loop ends
loop_exit ==
    /\ pc = "loop"
    /\ ~loop_condition
    /\ pc' = "done"
    /\ UNCHANGED <<config, visited_urls, all_links, page_data, urls_to_visit,
                   current_url, new_links, links, found_on, returned,
                   extracted, fetches>>

\* the loop going on to the fetch without line 205
mark_visited_skipped ==
    /\ pc = "mark"
    /\ pc' = "fetch"
    /\ UNCHANGED <<config, visited_urls, all_links, page_data, urls_to_visit, current_url,
                   new_links, links, found_on, returned, extracted, fetches>>

\* line 205
mark_visited ==
    /\ pc = "mark"
    /\ visited_urls' = visited_urls \cup {current_url}
    /\ pc' = "fetch"
    /\ UNCHANGED <<config, all_links, page_data, urls_to_visit, current_url,
                   new_links, links, found_on, returned,
                   extracted, fetches>>

\* a failed request whose exception is not caught: the run ends
fetch_failed_aborts ==
    /\ pc = "fetch"
    /\ new_links' = <<>>
    /\ pc' = "done"
    /\ fetches' = fetches + 1
    /\ UNCHANGED <<config, visited_urls, all_links, page_data, urls_to_visit,
                   current_url, links, found_on, returned,
                   extracted>>

\* a failed request whose error page is parsed for links, without a record
fetch_failed_parses_error_page ==
    /\ pc = "fetch"
    /\ links' = <<>>
    /\ pc' = "extract"
    /\ fetches' = fetches + 1
    /\ UNCHANGED <<config, visited_urls, all_links, page_data, urls_to_visit,
                   current_url, new_links, found_on, returned, extracted>>

\* lines 208, 134-135, 181-183: the request fails (transport error, timeout
\* or a status raise_for_status rejects); extract_links_and_titles returns []
fetch_failed ==
    /\ pc = "fetch"
    /\ new_links' = <<>>
    /\ pc' = "links"
    /\ fetches' = fetches + 1
    /\ UNCHANGED <<config, visited_urls, all_links, page_data, urls_to_visit,
                   current_url, links, found_on, returned,
                   extracted>>

\* datetime.now().strftime('%Y-%m-%d')
now_date == "2026-11-05"

\* lines 141-145: the record stored for url
page_record(doc) ==
    [seo_title |-> extract_seo_title_and_h1(doc).seo_title,
     h1_content |-> extract_seo_title_and_h1(doc).h1_content,
     lastmod |-> now_date]

\* lines 208, 134-150: the request succeeds and the page parses; the record
\* is stored and the link loop starts
fetch_succeeded ==
    /\ pc = "fetch"
    /\ \E doc \in Documents : page_data' = Put(page_data, current_url, page_record(doc))
    /\ links' = <<>>
    /\ pc' = "extract"
    /\ fetches' = fetches + 1
    /\ UNCHANGED <<config, visited_urls, all_links, urls_to_visit, current_url,
                   new_links, found_on, returned,
                   extracted>>

\* lines 152-177: the link loop meets the next anchor of the page
extract_href ==
    /\ pc = "extract"
    /\ \E href \in Hrefs :
        \E r \in {resolved(this, current_url, href)} :
            /\ ~r.raises
            /\ links' = IF ~r.skipped /\ r.valid /\ r.full_url \notin Range(links)
                         THEN Append(links, r.full_url)
                         ELSE links
            /\ extracted' = IF ~r.skipped /\ r.valid
                             THEN extracted \cup {r.full_url}
                             ELSE extracted
            /\ Len(links') <= MaxLinks
    /\ UNCHANGED <<config, visited_urls, all_links, page_data, urls_to_visit,
                   current_url, new_links, pc, found_on, returned,
                   fetches>>

\* lines 159-164, 184-186: urljoin or normalize_url raises on an anchor; the
\* except clause returns [], the record stored at line 141 stays
extract_raised ==
    /\ pc = "extract"
    /\ \E href \in Hrefs : resolved(this, current_url, href).raises
    /\ new_links' = <<>>
    /\ links' = <<>>
    /\ returned' = returned
    /\ pc' = "links"
    /\ UNCHANGED <<config, visited_urls, all_links, page_data, urls_to_visit,
                   current_url, found_on,
                   extracted, fetches>>

\* line 179: no anchor is left and the list is returned
extract_returned ==
    /\ pc = "extract"
    /\ new_links' = links
    /\ links' = <<>>
    /\ returned' = returned \cup Range(links)
    /\ pc' = "links"
    /\ UNCHANGED <<config, visited_urls, all_links, page_data, urls_to_visit,
                   current_url, found_on,
                   extracted, fetches>>

\* lines 213-215
clean(link) ==
    only({ normalize_url(without_anchor) : without_anchor \in {ignore_anchored_links(link)} })

\* the test of lines 218-221 without the visited_urls test
may_enqueue_no_visited_check(clean_link) ==
    /\ clean_link \notin urls_to_visit
    /\ is_valid_url(this, clean_link)
    /\ is_same_domain(this, clean_link)

\* lines 218-221: the test a link passes to be queued
may_enqueue(clean_link) ==
    /\ clean_link \notin visited_urls
    /\ clean_link \notin urls_to_visit
    /\ is_valid_url(this, clean_link)
    /\ is_same_domain(this, clean_link)

\* lines 211-226: one iteration of the for loop; new_links holds the links
\* the loop has not looked at yet
enqueue_link ==
    /\ pc = "links"
    /\ new_links # <<>>
    /\ \E clean_link \in {clean(Head(new_links))} :
           IF may_enqueue(clean_link)
           THEN /\ urls_to_visit' = urls_to_visit \cup {clean_link}
                /\ all_links' = all_links \cup {clean_link}
                /\ found_on' = Put(found_on, clean_link, current_url)
           ELSE UNCHANGED <<urls_to_visit, all_links, found_on>>
    /\ new_links' = Tail(new_links)
    /\ UNCHANGED <<config, visited_urls, page_data, current_url, links,
                   pc, returned,
                   extracted, fetches>>

\* lines 211, 228-229: the for loop is over
links_done ==
    /\ pc = "links"
    /\ new_links = <<>>
    /\ pc' = "sleep"
    /\ UNCHANGED <<config, visited_urls, all_links, page_data, urls_to_visit,
                   current_url, new_links, links, found_on, returned,
                   extracted, fetches>>

\* lines 232-233: time.sleep(delay) when the delay is positive
sleep ==
    /\ pc = "sleep"
    /\ pc' = "loop"
    /\ UNCHANGED <<config, visited_urls, all_links, page_data, urls_to_visit,
                   current_url, new_links, links, found_on, returned,
                   extracted, fetches>>

(***************************************************************************)
(* The emitters.                                                           *)
(***************************************************************************)
\* dict.get(url, {}).get(field, default)
get_field(url, field, default) ==
    IF url \in DOMAIN page_data THEN page_data[url][field] ELSE default

\* lines 299-310: the row written for url
csv_row(url) ==
    << get_field(url, "seo_title", "Not crawled"),
       get_field(url, "h1_content", "Not crawled"),
       ignore_anchored_links(url),
       get_field(url, "lastmod", now_date) >>

csv_header == <<"SEO Title", "H1", "Permalinks", "Date Crawled">>

\* lines 281-290: the seed and the discovered links, normalized, without
\* duplicates, sorted
unique_urls ==
    only({ sorted(urls) : urls \in {{normalize_url(url) : url \in {base_url} \cup all_links}} })

\* generate_csv storing the default record of every URL that has none
generate_csv_stores_defaults ==
    /\ pc = "done"
    /\ \E unique \in {unique_urls} :
        /\ csv_rows' = <<csv_header>> \o [i \in DOMAIN unique |-> csv_row(unique[i])]
        /\ page_data' = [u \in DOMAIN page_data \cup Range(unique) |->
                            IF u \in DOMAIN page_data THEN page_data[u]
                            ELSE [seo_title |-> "Not crawled", h1_content |-> "Not crawled",
                                  lastmod |-> now_date]]
    /\ pc' = "csv_written"
    /\ UNCHANGED <<base_url, domain, base_domain, delay, ignore_woocommerce_urls,
                   max_pages, visited_urls, all_links, urls_to_visit,
                   current_url, new_links, links, xml_urls, found_on, returned,
                   extracted, fetches, reruns, anchors, call>>

\* generate_csv, as main calls it after the crawl
generate_csv ==
    /\ pc = "done"
    /\ \E unique \in {unique_urls} :
        csv_rows' = <<csv_header>> \o [i \in DOMAIN unique |-> csv_row(unique[i])]
    /\ pc' = "csv_written"
    /\ UNCHANGED <<base_url, domain, base_domain, delay, ignore_woocommerce_urls,
                   max_pages, visited_urls, all_links, page_data, urls_to_visit,
                   current_url, new_links, links, xml_urls, found_on, returned,
                   extracted, fetches, reruns, anchors, call>>

\* add_url_to_sitemap: the children of the <url> element added for url
url_element(url) ==
    IF url \in DOMAIN page_data
    THEN << <<"loc", url>>,
            <<"seo_title", page_data[url].seo_title>>,
            <<"h1", page_data[url].h1_content>>,
            <<"lastmod", page_data[url].lastmod>> >>
    ELSE << <<"loc", url>>, <<"lastmod", now_date>> >>

\* generate_sitemap, as main calls it after the crawl: the seed first, then
\* all_links in the order the set is iterated
generate_sitemap ==
    /\ pc = "done"
    /\ \E order \in orders(all_links) :
        xml_urls' = <<url_element(base_url)>>
                    \o [i \in DOMAIN order |->
                           only({ url_element(clean_url) : clean_url \in {clean(order[i])} })]
    /\ pc' = "xml_written"
    /\ UNCHANGED <<base_url, domain, base_domain, delay, ignore_woocommerce_urls,
                   max_pages, visited_urls, all_links, page_data, urls_to_visit,
                   current_url, new_links, links, csv_rows, found_on, returned,
                   extracted, fetches, reruns, anchors, call>>

Next ==
    \/ crawl_begin
    \/ loop_pop
    \/ loop_exit
    \/ mark_visited
    \/ fetch_failed
    \/ fetch_succeeded
    \/ extract_href
    \/ extract_raised
    \/ extract_returned
    \/ enqueue_link
    \/ links_done
    \/ sleep
    \/ generate_csv
    \/ generate_sitemap

Spec == Init /\ [][Next]_vars

\* crawl_website is called again on the generator after a crawl has ended:
\* lines 194-196 set the frontier and clear visited_urls and all_links; the
\* locals of the call and the history of the run start afresh
crawl_again ==
    /\ pc = "done"
    /\ reruns < MaxReruns
    /\ max_pages' \in 1..MaxRerunBudget
    /\ urls_to_visit' = {base_url}
    /\ visited_urls' = {}
    /\ all_links' = {}
    /\ current_url' = <<>>
    /\ new_links' = <<>>
    /\ links' = <<>>
    /\ found_on' = [u \in {} |-> 0]
    /\ returned' = {}
    /\ extracted' = {}
    /\ fetches' = 0
    /\ reruns' = reruns + 1
    /\ pc' = "loop"
    /\ UNCHANGED <<base_url, domain, base_domain, delay, ignore_woocommerce_urls,
                   page_data, csv_rows, xml_urls, anchors, call>>

RerunNext == Next \/ crawl_again

\* a generator on which crawl_website may be called more than once
RerunSpec == Init /\ [][RerunNext]_vars

\* a generator of the seed as __init__ leaves it, before any crawl
constructed(seed) ==
    /\ \E ignore \in BOOLEAN : \E g \in {init(with_scheme(strip(seed)), ignore)} :
        /\ base_url = g.base_url
        /\ delay = g.delay
        /\ domain = g.domain
        /\ base_domain = g.base_domain
        /\ ignore_woocommerce_urls = g.ignore_woocommerce_urls
    /\ visited_urls = {}
    /\ all_links = {}
    /\ page_data = [u \in {} |-> 0]
    /\ urls_to_visit = {}
    /\ current_url = <<>>
    /\ new_links = <<>>
    /\ links = <<>>
    /\ csv_rows = <<>>
    /\ xml_urls = <<>>
    /\ found_on = [u \in {} |-> 0]
    /\ returned = {}
    /\ extracted = {}
    /\ fetches = 0
    /\ reruns = 0
    /\ anchors = <<>>

(***************************************************************************)
(* One site served as it is: the seed page carries four anchors, the page  *)
(* they lead to carries none, every request succeeds.                      *)
(***************************************************************************)
ExampleSeed == <<"e","x","a","m","p","l","e",".","c","o","m">>

ExampleHrefs ==
    { <<"/","a","b","o","u","t">>,
      <<"/","a","b","o","u","t","/">>,
      <<"h","t","t","p","s",":","/","/","o","t","h","e","r",".","c","o","m">>,
      <<"f","i","l","e",".","p","d","f">> }

\* a site whose seed page may link to a path with parameters
ParamsHrefs ==
    { <<"/","p">>,
      <<"/","p",";","/",";","x","/">>,
      <<"/","q","/","#","s">> }

\* the documents with all of hrefs as anchors, by their order
all_of(hrefs) == orders(hrefs)

\* the documents with some of hrefs as anchors
some_of(hrefs) == UNION {orders(S) : S \in SUBSET hrefs}

\* the anchors a site serves on the page url, in document order: one of
\* documents on its seed page, none elsewhere
served_anchors(url, documents) == IF url = base_url THEN documents ELSE {<<>>}

ExampleInit ==
    /\ constructed(ExampleSeed)
    /\ max_pages \in Budgets
    /\ pc = "constructed"
    /\ arg = <<>>
    /\ result = <<>>

\* lines 134-150: the request succeeds, the record is stored and the link
\* loop starts on the anchors of the page
serve(documents) ==
    /\ pc = "fetch"
    /\ \E doc \in Documents : page_data' = Put(page_data, current_url, page_record(doc))
    /\ anchors' \in served_anchors(current_url, documents)
    /\ links' = <<>>
    /\ fetches' = fetches + 1
    /\ pc' = "extract"
    /\ UNCHANGED <<base_url, domain, base_domain, delay, ignore_woocommerce_urls, max_pages,
                   csv_rows, xml_urls, reruns, call, visited_urls, all_links, urls_to_visit,
                   current_url, new_links, found_on, returned, extracted>>

\* a page of the example site is served
serve_page == serve(all_of(ExampleHrefs))

\* a page of the site with path parameters is served
serve_params_page == serve(some_of(ParamsHrefs))

\* lines 152-177: the link loop takes the next anchor of the page
extract_anchor ==
    /\ pc = "extract"
    /\ anchors # <<>>
    /\ \E r \in {resolved(this, current_url, Head(anchors))} :
        /\ ~r.raises
        /\ links' = IF ~r.skipped /\ r.valid /\ r.full_url \notin Range(links)
                     THEN Append(links, r.full_url)
                     ELSE links
        /\ extracted' = IF ~r.skipped /\ r.valid
                         THEN extracted \cup {r.full_url}
                         ELSE extracted
    /\ anchors' = Tail(anchors)
    /\ UNCHANGED <<base_url, domain, base_domain, delay, ignore_woocommerce_urls, max_pages,
                   csv_rows, xml_urls, reruns, call, visited_urls, all_links, page_data,
                   urls_to_visit, current_url, new_links, pc, found_on, returned, fetches>>

\* line 179: the last anchor was met and the list is returned
extract_end == anchors = <<>> /\ extract_returned

ExampleNext ==
    \/ crawl_begin
    \/ loop_pop
    \/ loop_exit
    \/ mark_visited
    \/ serve_page
    \/ extract_anchor
    \/ extract_end
    \/ enqueue_link
    \/ links_done
    \/ sleep
    \/ generate_csv
    \/ generate_sitemap

ExampleSpec == ExampleInit /\ [][ExampleNext]_vars

ParamsInit ==
    /\ constructed(SeedInput)
    /\ max_pages \in Budgets
    /\ pc = "constructed"
    /\ arg = <<>>
    /\ result = <<>>

ParamsNext ==
    \/ crawl_begin
    \/ loop_pop
    \/ loop_exit
    \/ mark_visited
    \/ fetch_failed
    \/ serve_params_page
    \/ extract_anchor
    \/ extract_end
    \/ enqueue_link
    \/ links_done
    \/ sleep
    \/ generate_csv
    \/ generate_sitemap

ParamsSpec == ParamsInit /\ [][ParamsNext]_vars

(***************************************************************************)
(* normalize_url called on its own, on a URL and on one that differs from  *)
(* it in trailing slash or fragment, and then on its own results.          *)
(***************************************************************************)
UrlSchemes == { <<"h","t","t","p","s",":","/","/">>,
<<"h","t","t","p",":","/","/">>,
<<"/","/">> }
UrlHosts == { <<"a",".","c","o">> }
UrlPaths ==
    { <<>>,
      <<"/">>,
      <<"/","p">>,
      <<"/","p","/">>,
      <<"/","p","/","/">>,
      <<"/","p",";","x">>,
      <<"/","p",";","x","/">> }
UrlQueries == { <<>>,
<<"?">>,
<<"?","q","=","1">> }
UrlFragments == { <<>>,
<<"#">>,
<<"#","s">> }

\* the URLs given to normalize_url, by their parts: absolute and
\* scheme-relative, with and without trailing slashes, query and fragment
UrlParts ==
    [scheme : UrlSchemes, host : UrlHosts, path : UrlPaths,
     query : UrlQueries, fragment : UrlFragments]

\* the URL string of the parts
url_of(p) == p.scheme \o p.host \o p.path \o p.query \o p.fragment

\* q is p, or p with one more trailing slash on the path, with any fragment
same_page(p, q) ==
    /\ q.scheme = p.scheme
    /\ q.host = p.host
    /\ q.query = p.query
    /\ q.path \in {p.path, p.path \o <<"/">>}

CanonInit ==
    /\ constructed(SeedInput)
    /\ max_pages = 1
    /\ pc = "call"
    /\ arg \in {a \in UrlParts \X UrlParts : same_page(a[1], a[2])}
    /\ result = <<>>

\* normalize_url(u) and normalize_url(v) for the two URLs of the call
normalize_both ==
    /\ pc = "call"
    /\ result' = <<normalize_url(url_of(arg[1])), normalize_url(url_of(arg[2]))>>
    /\ pc' = "normalized"
    /\ UNCHANGED <<base_url, domain, base_domain, delay, ignore_woocommerce_urls, max_pages,
                   csv_rows, xml_urls, reruns, anchors, arg, visited_urls, all_links,
                   page_data, urls_to_visit, current_url, new_links, links, found_on,
                   returned, extracted, fetches>>

\* normalize_url called on each of its two results
normalize_again ==
    /\ pc = "normalized"
    /\ result' = result \o <<normalize_url(result[1]), normalize_url(result[2])>>
    /\ pc' = "renormalized"
    /\ UNCHANGED <<base_url, domain, base_domain, delay, ignore_woocommerce_urls, max_pages,
                   csv_rows, xml_urls, reruns, anchors, arg, visited_urls, all_links,
                   page_data, urls_to_visit, current_url, new_links, links, found_on,
                   returned, extracted, fetches>>

CanonNext == normalize_both \/ normalize_again

CanonSpec == CanonInit /\ [][CanonNext]_vars

(***************************************************************************)
(* is_same_domain and is_valid_url called on their own, on generators of   *)
(* a bare and of a www seed.                                               *)
(***************************************************************************)
FilterSeeds == { <<"a",".","c","o">>,
<<"w","w","w",".","a",".","c","o">> }

FilterHosts ==
    { <<"a",".","c","o">>,
      <<"w","w","w",".","a",".","c","o">>,
      <<"b","l","o","g",".","a",".","c","o">>,
      <<"w","w","w",".","w","w","w",".","a",".","c","o">>,
      <<"b",".","c","o">>,
      <<"w","w","w",".","b",".","c","o">>,
      <<"x","a",".","c","o">> }

FilterPaths ==
    { <<>>,
      <<"/","b","l","o","g","/","p","o","s","t","-","1">>,
      <<"/","r","e","p","o","r","t",".","p","d","f">>,
      <<"/","d","o","c","s","/","r","e","p","o","r","t",".","p","d","f">>,
      <<"/","i","m","a","g","e",".","P","N","G">>,
      <<"/","c","a","r","t","/">>,
      <<"/","s","h","o","p","/","c","a","r","t","/">> }

\* the URLs given to the two tests, by their parts
FilterParts ==
    [scheme : {<<"h","t","t","p","s",":","/","/">>}, host : FilterHosts, path : FilterPaths,
     query : {<<>>, <<"?","v","=","2">>}, fragment : {<<>>}]

FilterInit ==
    /\ \E seed \in FilterSeeds : constructed(seed)
    /\ max_pages = 1
    /\ pc = "call"
    /\ arg \in {<<p>> : p \in FilterParts}
    /\ result = <<>>

\* self.is_same_domain(url)
call_is_same_domain ==
    /\ pc = "call"
    /\ result' = <<is_same_domain(this, url_of(arg[1]))>>
    /\ pc' = "same_domain"
    /\ UNCHANGED <<base_url, domain, base_domain, delay, ignore_woocommerce_urls, max_pages,
                   csv_rows, xml_urls, reruns, anchors, arg, visited_urls, all_links,
                   page_data, urls_to_visit, current_url, new_links, links, found_on,
                   returned, extracted, fetches>>

\* self.is_valid_url(url)
call_is_valid_url ==
    /\ pc = "call"
    /\ result' = <<is_valid_url(this, url_of(arg[1]))>>
    /\ pc' = "valid_url"
    /\ UNCHANGED <<base_url, domain, base_domain, delay, ignore_woocommerce_urls, max_pages,
                   csv_rows, xml_urls, reruns, anchors, arg, visited_urls, all_links,
                   page_data, urls_to_visit, current_url, new_links, links, found_on,
                   returned, extracted, fetches>>

FilterNext == call_is_same_domain \/ call_is_valid_url

FilterSpec == FilterInit /\ [][FilterNext]_vars

\* the steps by which crawl_website moves on
advance ==
    \/ crawl_begin
    \/ loop_pop
    \/ loop_exit
    \/ mark_visited
    \/ fetch_failed
    \/ fetch_succeeded
    \/ extract_returned
    \/ enqueue_link
    \/ links_done
    \/ sleep

\* crawl_website does not stop halfway: the request has a timeout (line
\* 134), a page has finitely many anchors, the list of links is finite and
\* the sleep ends
LiveSpec == Init /\ [][Next]_vars /\ WF_vars(advance)

(***************************************************************************)
(* Properties of the crawl.                                                *)
(***************************************************************************)
\* the pages whose fetch succeeded
Recorded == DOMAIN page_data

\* C1: with a positive budget max_pages, visited_urls never holds more than
\* max_pages URLs, in any state of the run, the last one included.
C1_VisitedWithinBudget ==
    max_pages >= 1 => Cardinality(visited_urls) <= max_pages

\* the budget stopped the run while the frontier still held pages
C1_Witness ==
    /\ pc = "done"
    /\ max_pages >= 2
    /\ Cardinality(visited_urls) = max_pages
    /\ urls_to_visit # {}

\* C2: in every state of the run, between any two steps of the loop, no URL
\* is both in the frontier urls_to_visit and in visited_urls.
C2_FrontierVisitedDisjoint == urls_to_visit \cap visited_urls = {}

\* a page returned a link to a page already visited while the frontier
\* holds other pages
C2_Witness ==
    /\ pc = "links"
    /\ new_links # <<>>
    /\ Head(new_links) \in visited_urls
    /\ urls_to_visit # {}

\* C3: a URL is fetched at most once in a run, whether the fetch succeeds or
\* fails: the URL being fetched is in visited_urls, visited_urls never loses
\* a URL, a fetch starts only for a URL that was not in visited_urls, and no
\* URL of visited_urls is put into the frontier.
C3_FetchedAtMostOnce ==
    /\ [](pc \in {"fetch", "extract", "links"} => current_url \in visited_urls)
    /\ [][ /\ visited_urls \subseteq visited_urls'
           /\ (pc # "fetch" /\ pc' = "fetch" => current_url' \notin visited_urls)
           /\ \A u \in urls_to_visit' \ urls_to_visit : u \notin visited_urls' ]_vars

\* a later page links to a page whose fetch failed: the link is about to be
\* looked at, and the failed page is not queued again
C3_Witness ==
    /\ pc = "links"
    /\ new_links # <<>>
    /\ Head(new_links) \in visited_urls \ Recorded
    /\ Head(new_links) # current_url

\* C4: a failed fetch does not end the run: the step that fails stores no
\* record, leaves the URL in visited_urls, queues nothing, and goes on to the
\* (empty) link loop as a successful fetch does; no link is ever queued from
\* a page without a record.
C4_FailureContinues ==
    /\ [][ pc = "fetch" /\ pc' # "extract" =>
             /\ pc' = "links"
             /\ new_links' = <<>>
             /\ page_data' = page_data
             /\ current_url \notin DOMAIN page_data'
             /\ current_url \in visited_urls'
             /\ urls_to_visit' = urls_to_visit
             /\ all_links' = all_links ]_vars
    /\ [][ urls_to_visit' \ urls_to_visit # {} /\ pc # "constructed" =>
             current_url \in Recorded ]_vars

\* a page is being parsed after the fetch of an earlier page failed
C4_Witness ==
    /\ pc = "extract"
    /\ visited_urls \ Recorded # {}

\* u is the seed, or was queued from a visited page with a record from which
\* the seed is reached in at most n more steps
RECURSIVE reaches_seed(_, _)
reaches_seed(u, n) ==
    \/ u = base_url
    \/ /\ n > 0
       /\ u \in DOMAIN found_on
       /\ found_on[u] \in visited_urls \cap Recorded
       /\ reaches_seed(found_on[u], n - 1)

\* C5: every visited URL other than the seed is reached from the seed by a
\* chain of links, each queued from a page that was returned the link, was in
\* visited_urls and had its record (its fetch had succeeded) when the link was
\* queued.
C5_ReachableFromSeed ==
    /\ [](\A u \in visited_urls : reaches_seed(u, Cardinality(visited_urls)))
    /\ [][ \A u \in urls_to_visit' \ urls_to_visit : pc # "constructed" =>
             /\ found_on'[u] = current_url
             /\ current_url \in visited_urls
             /\ current_url \in Recorded
             /\ \E link \in returned : clean(link) = u ]_vars

\* a visited page that was queued from a page other than the seed
C5_Witness ==
    \E u \in visited_urls : u \in DOMAIN found_on /\ found_on[u] # base_url

\* C6: every run ends: the loop reaches the end of crawl_website, with a
\* positive budget never more than max_pages requests are sent, and when the
\* loop has ended the frontier is empty or visited_urls holds max_pages URLs.
C6_Terminates ==
    /\ <>(pc = "done")
    /\ [](max_pages >= 1 => fetches <= max_pages)
    /\ [](pc = "done" => urls_to_visit = {} \/ Cardinality(visited_urls) >= max_pages)

\* the run ended on the budget after a page linked back to a visited page
\* (a link cycle) and with pages left in the frontier
C6_Witness ==
    /\ pc = "done"
    /\ max_pages >= 2
    /\ fetches = max_pages
    /\ urls_to_visit # {}
    /\ returned \cap visited_urls # {}

\* C7: when the run ends under the budget (the frontier is exhausted), every
\* crawlable link the link loop found on a fetched page is in visited_urls.
C7_ClosureWhenFrontierExhausted ==
    pc = "done" /\ Cardinality(visited_urls) < max_pages => extracted \subseteq visited_urls

\* the same for the links extract_links_and_titles returned
C7_ReturnedLinksVisited ==
    pc = "done" /\ Cardinality(visited_urls) < max_pages => returned \subseteq visited_urls

\* the run ended under the budget with a record for every visited page, and
\* a crawlable link found on one of them was never visited
C7_Witness ==
    /\ pc = "done"
    /\ Cardinality(visited_urls) < max_pages
    /\ visited_urls = Recorded
    /\ extracted \ visited_urls # {}

\* the netloc of url is the site's, with or without www., and its scheme is
\* http or https
on_site(url) ==
    /\ urlparse(url).netloc \in {base_domain, Www \o base_domain}
    /\ urlparse(url).scheme \in {<<"h","t","t","p">>, <<"h","t","t","p","s">>}

\* C8: a link is queued only if it is not in visited_urls, not in the
\* frontier, and is_same_domain and is_valid_url accept it; so every URL of
\* the frontier, of visited_urls and of all_links other than the seed is
\* accepted by both, is on the site and has the scheme http or https.
C8_NoCrossDomainLeakage ==
    /\ [](\A u \in (urls_to_visit \cup visited_urls \cup all_links) \ {base_url} :
             is_same_domain(this, u) /\ is_valid_url(this, u) /\ on_site(u))
    /\ [][ \A u \in urls_to_visit' \ urls_to_visit : pc # "constructed" =>
             /\ u \notin visited_urls
             /\ u \notin urls_to_visit
             /\ is_same_domain(this, u)
             /\ is_valid_url(this, u) ]_vars

\* a page of the site under its www. name was visited
C8_Witness ==
    \E u \in visited_urls : urlparse(u).netloc = Www \o base_domain

\* C9: every URL with a record is in visited_urls, and was there before the
\* record was stored; a visited URL may have no record.
C9_RecordImpliesVisited ==
    /\ [](Recorded \subseteq visited_urls)
    /\ [][ \A u \in DOMAIN page_data' \ DOMAIN page_data : u \in visited_urls ]_vars

\* a page with a record next to a visited page without one
C9_Witness ==
    /\ Recorded # {}
    /\ visited_urls \ Recorded # {}
    /\ pc = "loop"

\* C10: a record is stored by a successful fetch only, for the page fetched,
\* which had none; no step of the crawl or of the emitters changes or removes
\* a record.
C10_RecordImmutable ==
    [][ /\ \A u \in DOMAIN page_data :
             u \in DOMAIN page_data' /\ page_data'[u] = page_data[u]
        /\ \A u \in DOMAIN page_data' \ DOMAIN page_data :
             pc = "fetch" /\ pc' = "extract" /\ u = current_url
        /\ (pc = "fetch" /\ pc' = "extract" =>
               current_url \notin DOMAIN page_data /\ current_url \in DOMAIN page_data') ]_vars

\* an emitter ran over two records and over a URL without one
C10_Witness ==
    /\ pc \in {"csv_written", "xml_written"}
    /\ Cardinality(Recorded) >= 2
    /\ all_links \ Recorded # {}

\* C11: when crawl_website is started again on the same generator, the
\* frontier holds the seed only and visited_urls, all_links and page_data
\* hold nothing of the previous run; so every record of the new run is the
\* record of a page the new run visited.
C11_NoCrossRunState ==
    /\ [][ reruns' = reruns + 1 =>
             /\ urls_to_visit' = {base_url}
             /\ visited_urls' = {}
             /\ all_links' = {}
             /\ DOMAIN page_data' = {} ]_vars
    /\ [](reruns >= 1 => Recorded \subseteq visited_urls)

\* the second run wrote its CSV with the record of a page it never visited
C11_Witness ==
    /\ reruns = 1
    /\ pc = "csv_written"
    /\ Recorded \ visited_urls # {}

\* the two pages of the example site
ExamplePage == <<"h","t","t","p","s",":","/","/","e","x","a","m","p","l","e",".","c","o","m">>
ExampleAbout == <<"h","t","t","p","s",":","/","/","e","x","a","m","p","l","e",".","c","o","m","/","a","b","o","u","t">>

\* the URLs a written CSV lists, in order
csv_urls == [i \in 1..(Len(csv_rows) - 1) |-> csv_rows[i + 1][3]]

\* the <loc> texts a written XML document lists, in order
xml_locs == [i \in DOMAIN xml_urls |-> xml_urls[i][1][2]]

\* C12: crawling example.com, whose page links to /about, /about/,
\* https://other.com and file.pdf, with a budget of two pages or more ends
\* with records for exactly https://example.com and https://example.com/about;
\* nothing else is ever queued, visited, discovered or emitted.
C12_EndToEnd ==
    /\ urls_to_visit \cup visited_urls \cup all_links \cup Recorded
           \subseteq {ExamplePage, ExampleAbout}
    /\ (pc \in {"done", "csv_written", "xml_written"} /\ max_pages >= 2 =>
           /\ Recorded = {ExamplePage, ExampleAbout}
           /\ visited_urls = {ExamplePage, ExampleAbout}
           /\ all_links = {ExampleAbout}
           /\ urls_to_visit = {})
    /\ (pc = "csv_written" /\ max_pages >= 2 => csv_urls = <<ExamplePage, ExampleAbout>>)
    /\ (pc = "xml_written" /\ max_pages >= 2 => xml_locs = <<ExamplePage, ExampleAbout>>)

\* the crawl of the example site ended and its CSV has the two rows
C12_Witness ==
    /\ base_url = ExamplePage
    /\ pc = "csv_written"
    /\ max_pages >= 2
    /\ Len(csv_rows) = 3
    /\ fetches = 2

\* C13: a non-positive page budget is an error raised before the run begins:
\* such a generator never leaves its constructed state, builds no frontier
\* and writes no output.
C13_ConfigurationErrorFatal ==
    max_pages <= 0 =>
        /\ pc = "constructed"
        /\ urls_to_visit = {}
        /\ csv_rows = <<>>
        /\ xml_urls = <<>>

\* a budget of zero was accepted, the crawl ran without a request and the
\* CSV was written with the row of the seed
C13_Witness ==
    /\ max_pages = 0
    /\ pc = "csv_written"
    /\ fetches = 0
    /\ Len(csv_rows) = 2
    /\ csv_rows[2][3] = base_url

\* C14: normalize_url is idempotent on every absolute or scheme-relative
\* URL: normalizing a result again returns that result.
C14_Idempotent ==
    pc = "renormalized" => result[3] = result[1] /\ result[4] = result[2]

\* the scheme-relative URL //a.co/p was normalized twice and the second
\* result differs from the first
C14_Witness ==
    /\ pc = "renormalized"
    /\ url_of(arg[1]) = <<"/","/","a",".","c","o","/","p">>
    /\ result[1] = <<":","/","/","a",".","c","o","/","p">>
    /\ result[3] = <<":","/","/",":","/","/","a",".","c","o","/","p">>

\* the URLs of the call are absolute and carry no path parameters
plain(p) == p.scheme # <<"/", "/">> /\ ~contains(p.path, <<";">>)

\* normalize_url is idempotent on absolute URLs without path parameters
C14_IdempotentOnPlainUrls ==
    pc = "renormalized" =>
        /\ plain(arg[1]) => result[3] = result[1]
        /\ plain(arg[2]) => result[4] = result[2]

\* C15: two URLs that differ only in a trailing slash of the path or in
\* the fragment have the same normalized value, and a query string of the
\* URL ends that value unchanged.
C15_SamePage ==
    pc # "call" =>
        /\ result[1] = result[2]
        /\ Len(arg[1].query) > 1 => endswith(result[1], arg[1].query)

\* https://a.co/p;x and https://a.co/p;x/ were normalized to two values
C15_Witness ==
    /\ pc = "normalized"
    /\ url_of(arg[1]) = <<"h","t","t","p","s",":","/","/","a",".","c","o","/","p",";","x">>
    /\ url_of(arg[2]) = <<"h","t","t","p","s",":","/","/","a",".","c","o","/","p",";","x","/">>
    /\ result = << <<"h","t","t","p","s",":","/","/","a",".","c","o","/","p">>,
                   <<"h","t","t","p","s",":","/","/","a",".","c","o","/","p",";","x">> >>

\* the same for URLs whose path carries no parameters
C15_SamePageWithoutParams ==
    pc # "call" /\ ~contains(arg[1].path, <<";">>) =>
        /\ result[1] = result[2]
        /\ Len(arg[1].query) > 1 => endswith(result[1], arg[1].query)

\* the hosts of the site a.co
SiteHosts == { <<"a",".","c","o">>, <<"w","w","w",".","a",".","c","o">> }

\* C16: with a.co or www.a.co as the base, a URL is of the same site
\* exactly when its host is a.co or www.a.co: the www. label is ignored in
\* either direction, and blog.a.co, www.www.a.co and other hosts are
\* rejected.
C16_DomainScoping ==
    pc = "same_domain" => (result[1] <=> arg[1].host \in SiteHosts)

\* the base is www.a.co and a URL of the host a.co was accepted
C16_Witness ==
    /\ pc = "same_domain"
    /\ domain = <<"w","w","w",".","a",".","c","o">>
    /\ arg[1].host = <<"a",".","c","o">>
    /\ result = <<TRUE>>

\* C17: for a URL of the same site is_valid_url rejects a path ending in
\* .pdf or .PNG, with or without a query string, rejects a cart path
\* exactly when ignore_woocommerce_urls is set, and accepts /blog/post-1.
C17_LinkFilter ==
    pc = "valid_url" /\ arg[1].host \in SiteHosts =>
        /\ arg[1].path \in {<<"/","r","e","p","o","r","t",".","p","d","f">>, <<"/","d","o","c","s","/","r","e","p","o","r","t",".","p","d","f">>, <<"/","i","m","a","g","e",".","P","N","G">>}
              => result[1] = FALSE
        /\ arg[1].path \in {<<"/","c","a","r","t","/">>, <<"/","s","h","o","p","/","c","a","r","t","/">>}
              => result[1] = ~ignore_woocommerce_urls
        /\ arg[1].path = <<"/","b","l","o","g","/","p","o","s","t","-","1">> => result[1] = TRUE

\* /image.PNG?v=2 of the same site was rejected
C17_Witness ==
    /\ pc = "valid_url"
    /\ arg[1].host \in SiteHosts
    /\ arg[1].path = <<"/","i","m","a","g","e",".","P","N","G">>
    /\ arg[1].query = <<"?","v","=","2">>
    /\ result = <<FALSE>>

\* the canonical URLs a finished crawl knows: the seed and all_links
Known == {base_url} \cup all_links

\* C18: a written CSV has the header first, then one row for each URL of
\* the seed and all_links and no other row, the rows ascending by URL, a
\* row carrying the title and heading of the record of its URL, or
\* 'Not crawled' twice where the URL has no record.
C18_CsvExport ==
    pc = "csv_written" =>
        /\ csv_rows[1] = <<"SEO Title", "H1", "Permalinks", "Date Crawled">>
        /\ Len(csv_urls) = Cardinality(Known)
        /\ Range(csv_urls) = Known
        /\ \A i, j \in DOMAIN csv_urls : i < j => str_less(csv_urls[i], csv_urls[j])
        /\ \A i \in DOMAIN csv_urls :
              IF csv_urls[i] \in Recorded
              THEN /\ csv_rows[i + 1][1] = page_data[csv_urls[i]].seo_title
                   /\ csv_rows[i + 1][2] = page_data[csv_urls[i]].h1_content
              ELSE /\ csv_rows[i + 1][1] = "Not crawled"
                   /\ csv_rows[i + 1][2] = "Not crawled"

\* https://a.co/p; was discovered and fetched, and the written CSV has no
\* row for it
C18_Witness ==
    /\ pc = "csv_written"
    /\ <<"h","t","t","p","s",":","/","/","a",".","c","o","/","p",";">> \in all_links \cap Recorded
    /\ <<"h","t","t","p","s",":","/","/","a",".","c","o","/","p",";">> \notin Range(csv_urls)

\* the children of a <url> element carry the tag
has_child(element, tag) == \E k \in DOMAIN element : element[k][1] = tag

\* C19: a written XML document has one <url> element for each URL of the
\* seed and all_links and no URL twice, every <loc> is filled, and an
\* element has <seo_title> and <h1> children exactly when its URL has a
\* record.
C19_XmlExport ==
    pc = "xml_written" =>
        /\ Len(xml_locs) = Cardinality(Known)
        /\ Range(xml_locs) = Known
        /\ \A i \in DOMAIN xml_urls :
              /\ xml_urls[i][1][1] = "loc"
              /\ xml_locs[i] # <<>>
              /\ has_child(xml_urls[i], "seo_title") <=> xml_locs[i] \in Recorded
              /\ has_child(xml_urls[i], "h1") <=> xml_locs[i] \in Recorded

\* https://a.co/p and https://a.co/p; were discovered and the written XML
\* document has two <url> elements for https://a.co/p
C19_Witness ==
    /\ pc = "xml_written"
    /\ {<<"h","t","t","p","s",":","/","/","a",".","c","o","/","p">>, <<"h","t","t","p","s",":","/","/","a",".","c","o","/","p",";">>} \subseteq all_links
    /\ \E i, j \in DOMAIN xml_locs :
          i # j /\ xml_locs[i] = <<"h","t","t","p","s",":","/","/","a",".","c","o","/","p">> /\ xml_locs[j] = <<"h","t","t","p","s",":","/","/","a",".","c","o","/","p">>

\* the URLs that were ever enqueued: those visited and those still pending
Enqueued == urls_to_visit \cup visited_urls

\* C20: whenever the loop of crawl_website is at its condition, the
\* frontier and the visited set together are the seed and all_links, and
\* the seed is not in all_links; so a written CSV or XML document lists
\* only URLs that are visited or still pending.
C20_Accounting ==
    /\ pc = "loop" => Enqueued = Known /\ base_url \notin all_links
    /\ pc = "csv_written" => Range(csv_urls) \subseteq Enqueued
    /\ pc = "xml_written" => Range(xml_locs) \subseteq Enqueued

\* https://a.co/p was never enqueued and the written XML document lists it
C20_Witness ==
    /\ pc = "xml_written"
    /\ Enqueued = {base_url, <<"h","t","t","p","s",":","/","/","a",".","c","o","/","p",";">>}
    /\ \E i \in DOMAIN xml_locs : xml_locs[i] = <<"h","t","t","p","s",":","/","/","a",".","c","o","/","p">>

\* the loop invariant of C20 alone
C20_AccountingAtLoop ==
    pc = "loop" => Enqueued = Known /\ base_url \notin all_links

====
